---- MODULE Spec2Model ----
(***************************************************************************)
(* Model of the task board's position ordering (src/src/app/actions/       *)
(* index.ts): the store of tasks and categories, createTask, moveTask with *)
(* rebalancePositions, and the edit actions.                               *)
(*                                                                         *)
(* Positions are the Float column of prisma/schema.prisma.  Every position *)
(* the actions can produce from an empty store is a dyadic multiple of     *)
(* 1000 (sums of 1000, halves of 1000, midpoints), so a position p is held *)
(* exactly as the integer p * Scale, Scale = 2^PrecBits.  A midpoint that  *)
(* would need more than PrecBits binary digits is outside the model: the   *)
(* action computing it is not taken.                                       *)
(***************************************************************************)
EXTENDS Integers, Sequences, FiniteSets, TLC

\* ------------------------------------------------------------------ bounds
PrecBits == 8
MaxOps == 2
CatPrecBits == 17

Scale == 2 ^ PrecBits
\* a Category position p is held as the integer p * CatScale
CatScale == 2 ^ CatPrecBits

\* --------------------------------------------------------- program constants
POSITION_GAP == 1000
MIN_DIFF == 1

Gap == POSITION_GAP * Scale
HalfGap == (POSITION_GAP * Scale) \div 2
P(n) == n * Scale

POSITION_SPACING == 1000
\* MIN_GAP = 0.001 is 1 / MIN_GAP_INVERSE
MIN_GAP_INVERSE == 1000
CP(n) == n * CatScale

\* ------------------------------------------------------------------ universe
NoId == "none"
Users == {"u1", "u2"}
TaskIds == {"t1", "t2", "t3", "t4"}
CatIds == {"c1", "c2", "c3", "c4"}

VARIABLES
    tasks,       \* task id -> row of the Task table (existing rows only)
    categories,  \* category id -> row of the Category table
    last,        \* the last completed action: its name, arguments and outcome
                 \* (cats: the Category table before it, for the actions that
                 \* write categories)
    pre,         \* the Task table before the last action
    ops,         \* number of actions completed
    reqs         \* the moveTask requests in flight (ConcSpec): request -> its
                 \* arguments, its position in the handler and what it loaded

vars == <<tasks, categories, last, pre, ops, reqs>>

\* ------------------------------------------------------------------ the store
\* a title is held by its length and its length once trimmed; a description
\* by its length, NullLen for null
Title(len, trim) == [len |-> len, trim |-> trim]
NullLen == -1

Task(u, pos, cat) == [userId |-> u, position |-> pos, categoryId |-> cat,
                      title |-> Title(1, 1), description |-> NullLen,
                      status |-> "TODO", dueDate |-> "null"]

Category(u, pos, def) == [userId |-> u, position |-> pos, isDefault |-> def,
                          name |-> Title(10, 10)]

\* variant: every row of the table, the where: { userId } filter left out
AllTasks(tbl, u) == DOMAIN tbl

TasksOf(tbl, u) == {t \in DOMAIN tbl : tbl[t].userId = u}

\* variant: findMany({ orderBy: { position: 'asc' } }) over the rows of all users
FindManyAnyUser(tbl, u) ==
    LET S == DOMAIN tbl
        n == Cardinality(S)
    IN  {s \in [1..n -> S] :
            /\ \A i, j \in 1..n : i # j => s[i] # s[j]
            /\ \A i \in 1..n : \A j \in 1..n :
                 i < j => tbl[s[i]].position <= tbl[s[j]].position}

\* prisma.task.findMany({ where: { userId }, orderBy: { position: 'asc' } }):
\* the user's rows in ascending position; rows of equal position come in any
\* order, so the result is one of a set of sequences.
FindManyAsc(tbl, u) ==
    LET S == TasksOf(tbl, u)
        n == Cardinality(S)
    IN  {s \in [1..n -> S] :
            /\ \A i, j \in 1..n : i # j => s[i] # s[j]
            /\ \A i \in 1..n : \A j \in 1..n :
                 i < j => tbl[s[i]].position <= tbl[s[j]].position}

\* columnTasks.find(t => t.id === id): index of the row in the load, 0 if absent
Find(load, id) ==
    IF \E i \in 1..Len(load) : load[i] = id
    THEN CHOOSE i \in 1..Len(load) : load[i] = id
    ELSE 0

NoLast == [op |-> "init", user |-> NoId, taskId |-> NoId, beforeId |-> NoId,
           afterId |-> NoId, categoryId |-> NoId, result |-> "ok",
           mode |-> "none", targetCategoryId |-> NoId,
           load |-> <<>>, rebalances |-> 0,
           cats |-> <<>>, name |-> Title(0, 0), isDefault |-> "absent",
           data |-> <<>>]


\* ------------------------------------------------------------------ guards
\* variant: the lookup by id alone, without the userId filter
verifyTaskOwnershipById(tbl, u, taskId) == taskId \in DOMAIN tbl

\* verifyTaskOwnership: findFirst({ where: { id: taskId, userId } })
verifyTaskOwnership(tbl, u, taskId) ==
    taskId \in DOMAIN tbl /\ tbl[taskId].userId = u

\* variant: the category looked up by id alone
verifyCategoryOwnershipById(cats, u, categoryId) == categoryId \in DOMAIN cats

\* verifyCategoryOwnership: findFirst({ where: { id: categoryId, userId } })
verifyCategoryOwnership(cats, u, categoryId) ==
    categoryId \in DOMAIN cats /\ cats[categoryId].userId = u

\* validateTitle: !title?.trim() || title.length > 255
MaxTitleLen == 255
validateTitle(title) == title.trim >= 1 /\ title.len <= MaxTitleLen

\* validateDescription: description && description.length > 1000
MaxDescriptionLen == 1000
validateDescription(description) == ~(description > 0 /\ description > MaxDescriptionLen)

\* validateDueDate: dueDate && (!(dueDate instanceof Date) || isNaN(dueDate.getTime()))
validateDueDate(dueDate) == dueDate # "invalid"

\* validateStatus
validStatuses == {"TODO", "IN_PROGRESS", "COMPLETED"}
validateStatus(status) == status \in validStatuses

\* ------------------------------------------------------------- createTask
MaxPosition(tbl, S) ==
    CHOOSE m \in {tbl[t].position : t \in S} :
        \A t \in S : tbl[t].position <= m

\* variant: the position taken from the number of rows, not from the last row
getNextPositionByCount(tbl, u) == (Cardinality(TasksOf(tbl, u)) + 1) * Gap

\* getNextPosition: (lastTask?.position ?? 0) + 1000, lastTask the user's row
\* of largest position
getNextPosition(tbl, u) ==
    IF TasksOf(tbl, u) = {} THEN 0 + Gap
    ELSE MaxPosition(tbl, TasksOf(tbl, u)) + Gap

DefaultsOf(cats, u) == {c \in DOMAIN cats : cats[c].userId = u /\ cats[c].isDefault}

FreshIn(ids, used) == CHOOSE i \in ids \ used : TRUE

\* getDefaultCategoryId: the user's default category, created at position 0
\* when there is none.  The result is the id and the Category table after it.
getDefaultCategoryId(cats, u) ==
    IF DefaultsOf(cats, u) # {}
    THEN {[id |-> c, cats |-> cats] : c \in DefaultsOf(cats, u)}
    ELSE LET c == FreshIn(CatIds, DOMAIN cats)
         IN  {[id |-> c,
               cats |-> [x \in DOMAIN cats \cup {c} |->
                           IF x = c THEN Category(u, 0, TRUE) ELSE cats[x]]]}

\* data: [title, description, dueDate, status, categoryId]; description
\* NullLen, status "none" and categoryId NoId when the caller leaves them out
CreateTask(u, data) ==
    /\ ops < MaxOps
    /\ TaskIds \ DOMAIN tasks # {}
    /\ data.categoryId = NoId =>
          (DefaultsOf(categories, u) # {} \/ CatIds \ DOMAIN categories # {})
    /\ pre' = tasks
    /\ ops' = ops + 1
    /\ UNCHANGED reqs
    /\ LET base == [NoLast EXCEPT !.op = "createTask", !.user = u,
                                  !.categoryId = data.categoryId,
                                  !.cats = categories]
           id == FreshIn(TaskIds, DOMAIN tasks)
           row(cat) == [userId |-> u, position |-> getNextPosition(tasks, u),
                        categoryId |-> cat, title |-> data.title,
                        description |-> data.description,
                        status |-> IF data.status = "none" THEN "TODO" ELSE data.status,
                        dueDate |-> data.dueDate]
           created(cat) == [t \in DOMAIN tasks \cup {id} |->
                              IF t = id THEN row(cat) ELSE tasks[t]]
       IN
       IF \/ ~validateTitle(data.title)
          \/ ~validateDescription(data.description)
          \/ ~validateDueDate(data.dueDate)
       THEN /\ last' = [base EXCEPT !.result = "ValidationError"]
            /\ UNCHANGED <<tasks, categories>>
       ELSE IF data.categoryId # NoId
       THEN IF data.categoryId \in DOMAIN categories /\ data.status \in validStatuses \cup {"none"}
            THEN /\ tasks' = created(data.categoryId)
                 /\ last' = [base EXCEPT !.taskId = id]
                 /\ UNCHANGED categories
            ELSE \* the insert is refused by the store (foreign key, enum)
                 /\ last' = [base EXCEPT !.result = "Error"]
                 /\ UNCHANGED <<tasks, categories>>
       ELSE \E d \in getDefaultCategoryId(categories, u) :
                 /\ categories' = d.cats
                 /\ IF data.status \in validStatuses \cup {"none"}
                    THEN /\ tasks' = created(d.id)
                         /\ last' = [base EXCEPT !.taskId = id]
                    ELSE /\ last' = [base EXCEPT !.result = "Error"]
                         /\ UNCHANGED tasks

NewTask(cat) == [title |-> Title(1, 1), description |-> NullLen, dueDate |-> "null",
                 status |-> "none", categoryId |-> cat]

\* --------------------------------------------------------------- moveTask
\* variant: index * POSITION_GAP, the first row at 0
rebalanceFromZero(tbl, load) ==
    [t \in DOMAIN tbl |->
        IF Find(load, t) # 0
        THEN [tbl[t] EXCEPT !.position = (Find(load, t) - 1) * Gap]
        ELSE tbl[t]]

\* rebalancePositions: the row at index i of the load gets (i + 1) * 1000
\* (indices of the load start at 0 in the code, at 1 here)
rebalancePositions(tbl, load) ==
    [t \in DOMAIN tbl |->
        IF Find(load, t) # 0
        THEN [tbl[t] EXCEPT !.position = Find(load, t) * Gap]
        ELSE tbl[t]]

\* variant: rows that are gone are skipped, as updateMany would
rebalanceNeverFails(tbl, load) == FALSE

\* Promise.all over tx.task.update({ where: { id } }): an update of a row that
\* is no longer in the table rejects, and the catch of rebalancePositions
\* turns the rejection into PositionError('Failed to rebalance positions')
rebalanceFails(tbl, load) == \E i \in 1..Len(load) : load[i] \notin DOMAIN tbl

\* "Moving to start": columnTasks[0]?.position ? columnTasks[0].position - GAP : 0
\* (first is the sequence of positions of the load; a position of 0 is falsy)
positionAtStart(first) ==
    IF Len(first) > 0 /\ first[1] # 0 THEN first[1] - Gap ELSE 0

\* variant: afterItem.position / 2, the head rule of calculateNewPosition
positionBeforeHalved(afterPosition) == afterPosition \div 2

\* "Moving before a task": afterTask.position - (POSITION_GAP / 2)
positionBefore(afterPosition) == afterPosition - HalfGap

\* "Moving after a task": beforeTask.position + (POSITION_GAP / 2)
positionAfter(beforePosition) == beforePosition + HalfGap

\* variant: any gap narrower than a whole POSITION_GAP counts as too close
tooCloseWide(positionDiff) == positionDiff < Gap

\* positionDiff < 1: "Rebalance if positions are too close"
tooClose(positionDiff) == positionDiff < MIN_DIFF * Scale

\* variant: the whole difference added, not its half
positionBetweenWhole(beforePosition, positionDiff) == beforePosition + positionDiff

\* beforeTask.position + (positionDiff / 2)
positionBetween(beforePosition, positionDiff) == beforePosition + (positionDiff \div 2)

\* "Recalculate position after rebalancing":
\* (beforeTask.position + afterTask.position) / 2, on the rows as loaded
positionAfterRebalance(beforePosition, afterPosition) ==
    (beforePosition + afterPosition) \div 2

\* The body of the transaction of moveTask: columnTasks is the load, snap the
\* Task table when it was loaded, tbl the table the updates are applied to
\* (the same table unless another request committed in between).  The
\* positions of beforeTask and afterTask are those of the rows as loaded.
\* result "unrepresentable" marks a midpoint outside the model's precision.
MoveTx(snap, tbl, load, taskId, beforeId, afterId, categoryId) ==
    LET pos(i) == snap[load[i]].position
        b == Find(load, beforeId)
        a == Find(load, afterId)
        fail(r) == [result |-> r, rebalances |-> 0, tasks |-> tbl]
        \* tx.task.update of the moved row; when the row is gone the update
        \* rejects, the transaction rolls back and the catch of moveTask
        \* throws Error('Failed to move task')
        done(t, newPosition, n) ==
            IF taskId \notin DOMAIN t THEN [fail("Error") EXCEPT !.rebalances = n]
            ELSE [result |-> "ok", rebalances |-> n,
                  tasks |-> [t EXCEPT ![taskId].position = newPosition,
                                      ![taskId].categoryId =
                                          IF categoryId # NoId THEN categoryId ELSE @]]
    IN
    IF beforeId = NoId /\ afterId = NoId
    THEN done(tbl, positionAtStart([i \in 1..Len(load) |-> pos(i)]), 0)
    ELSE IF beforeId = NoId
    THEN IF a = 0 THEN fail("PositionError")
         ELSE done(tbl, positionBefore(pos(a)), 0)
    ELSE IF afterId = NoId
    THEN IF b = 0 THEN fail("PositionError")
         ELSE done(tbl, positionAfter(pos(b)), 0)
    ELSE IF b = 0 \/ a = 0 THEN fail("PositionError")
    ELSE LET positionDiff == pos(a) - pos(b)
         IN  IF positionDiff % 2 # 0 THEN fail("unrepresentable")
             ELSE IF tooClose(positionDiff)
             THEN IF rebalanceFails(tbl, load)
                  THEN [fail("PositionError") EXCEPT !.rebalances = 1]
                  ELSE
                  done(rebalancePositions(tbl, load),
                       positionAfterRebalance(pos(b), pos(a)), 1)
             ELSE done(tbl, positionBetween(pos(b), positionDiff), 0)

MoveTask(u, taskId, beforeId, afterId, categoryId) ==
    /\ ops < MaxOps
    /\ pre' = tasks
    /\ ops' = ops + 1
    /\ UNCHANGED <<categories, reqs>>
    /\ LET base == [NoLast EXCEPT !.op = "moveTask", !.user = u, !.taskId = taskId,
                                  !.beforeId = beforeId, !.afterId = afterId,
                                  !.categoryId = categoryId]
       IN
       IF ~verifyTaskOwnership(tasks, u, taskId)
       THEN /\ last' = [base EXCEPT !.result = "AuthorizationError"]
            /\ UNCHANGED tasks
       ELSE IF categoryId # NoId /\ ~verifyCategoryOwnership(categories, u, categoryId)
       THEN /\ last' = [base EXCEPT !.result = "AuthorizationError"]
            /\ UNCHANGED tasks
       ELSE \E columnTasks \in FindManyAsc(tasks, u) :
              LET r == MoveTx(tasks, tasks, columnTasks, taskId, beforeId, afterId, categoryId)
              IN  /\ r.result # "unrepresentable"
                  /\ tasks' = r.tasks
                  /\ last' = [base EXCEPT !.result = r.result, !.load = columnTasks,
                                          !.rebalances = r.rebalances]

\* ----------------------------------------------------------- edit actions
EditBase(op, u, taskId, categoryId) ==
    [NoLast EXCEPT !.op = op, !.user = u, !.taskId = taskId, !.categoryId = categoryId]

Edit(base, result, newTasks) ==
    /\ ops < MaxOps
    /\ pre' = tasks
    /\ ops' = ops + 1
    /\ last' = [base EXCEPT !.result = result]
    /\ tasks' = newTasks
    /\ UNCHANGED <<categories, reqs>>

UpdateTaskTitle(u, taskId, title) ==
    LET base == EditBase("updateTaskTitle", u, taskId, NoId)
    IN  IF ~validateTitle(title) THEN Edit(base, "ValidationError", tasks)
        ELSE IF ~verifyTaskOwnership(tasks, u, taskId)
        THEN Edit(base, "AuthorizationError", tasks)
        ELSE Edit(base, "ok", [tasks EXCEPT ![taskId].title = title])

UpdateTaskDescription(u, taskId, description) ==
    LET base == EditBase("updateTaskDescription", u, taskId, NoId)
    IN  IF ~validateDescription(description) THEN Edit(base, "ValidationError", tasks)
        ELSE IF ~verifyTaskOwnership(tasks, u, taskId)
        THEN Edit(base, "AuthorizationError", tasks)
        ELSE Edit(base, "ok", [tasks EXCEPT ![taskId].description = description])

UpdateTaskStatus(u, taskId, newStatus) ==
    LET base == EditBase("updateTaskStatus", u, taskId, NoId)
    IN  IF ~verifyTaskOwnership(tasks, u, taskId)
        THEN Edit(base, "AuthorizationError", tasks)
        ELSE IF ~validateStatus(newStatus) THEN Edit(base, "ValidationError", tasks)
        ELSE Edit(base, "ok", [tasks EXCEPT ![taskId].status = newStatus])

UpdateTaskCategory(u, taskId, categoryId) ==
    LET base == EditBase("updateTaskCategory", u, taskId, categoryId)
    IN  IF ~verifyTaskOwnership(tasks, u, taskId)
        THEN Edit(base, "AuthorizationError", tasks)
        ELSE IF categoryId # NoId /\ ~verifyCategoryOwnership(categories, u, categoryId)
        THEN Edit(base, "AuthorizationError", tasks)
        ELSE IF categoryId = NoId
        THEN Edit(base, "Error", tasks)     \* no such category: the update is refused
        ELSE Edit(base, "ok", [tasks EXCEPT ![taskId].categoryId = categoryId])

\* taskSchema (lib/schemas/task.ts), as taskSchema.partial().parse(data).
\* data.keys is the set of keys the payload carries.  The result is FALSE when
\* a carried key fails its rule (a ZodError), else the payload with the keys
\* the schema does not declare removed (z.object strips unknown keys).
schemaKeys == {"title", "description", "status", "dueDate", "categoryId"}

\* variant: a schema that passes unknown keys through (z.object().passthrough())
taskSchemaPassthroughParse(data) ==
    IF \/ "title" \in data.keys /\ ~(data.title.len >= 1 /\ data.title.len <= MaxTitleLen)
       \/ "description" \in data.keys /\ data.description > MaxDescriptionLen
       \/ "status" \in data.keys /\ data.status \notin validStatuses
       \/ "dueDate" \in data.keys /\ data.dueDate = "invalid"
       \/ "categoryId" \in data.keys /\ data.categoryId = NoId
    THEN [ok |-> FALSE, value |-> data]
    ELSE [ok |-> TRUE, value |-> data]

taskSchemaPartialParse(data) ==
    IF \/ "title" \in data.keys /\ ~(data.title.len >= 1 /\ data.title.len <= MaxTitleLen)
       \/ "description" \in data.keys /\ data.description > MaxDescriptionLen
       \/ "status" \in data.keys /\ data.status \notin validStatuses
       \/ "dueDate" \in data.keys /\ data.dueDate = "invalid"
       \/ "categoryId" \in data.keys /\ data.categoryId = NoId
    THEN [ok |-> FALSE, value |-> data]
    ELSE [ok |-> TRUE, value |-> [data EXCEPT !.keys = data.keys \cap schemaKeys]]

\* prisma.task.update({ where: { id }, data }): every column data carries
TaskUpdate(row, data) ==
    [userId |-> row.userId,
     title |-> IF "title" \in data.keys THEN data.title ELSE row.title,
     description |-> IF "description" \in data.keys THEN data.description
                     ELSE row.description,
     status |-> IF "status" \in data.keys THEN data.status ELSE row.status,
     dueDate |-> IF "dueDate" \in data.keys THEN data.dueDate ELSE row.dueDate,
     categoryId |-> IF "categoryId" \in data.keys THEN data.categoryId
                    ELSE row.categoryId,
     position |-> IF "position" \in data.keys THEN data.position ELSE row.position]

UpdateTask(u, taskId, data) ==
    LET base == [EditBase("updateTask", u, taskId,
                          IF "categoryId" \in data.keys THEN data.categoryId ELSE NoId)
                    EXCEPT !.data = data]
        validated == taskSchemaPartialParse(data)
        truthy(k) == k \in data.keys
    IN  IF ~validated.ok THEN Edit(base, "Error", tasks)
        ELSE IF ~verifyTaskOwnership(tasks, u, taskId)
        THEN Edit(base, "AuthorizationError", tasks)
        ELSE IF \/ truthy("title") /\ data.title.len > 0 /\ ~validateTitle(data.title)
                \/ truthy("description") /\ data.description > 0
                      /\ ~validateDescription(data.description)
                \/ truthy("dueDate") /\ data.dueDate # "null" /\ ~validateDueDate(data.dueDate)
                \/ truthy("status") /\ ~validateStatus(data.status)
        THEN Edit(base, "ValidationError", tasks)
        ELSE IF truthy("categoryId") /\ data.categoryId # NoId
                /\ ~verifyCategoryOwnership(categories, u, data.categoryId)
        THEN Edit(base, "AuthorizationError", tasks)
        ELSE Edit(base, "ok", [tasks EXCEPT ![taskId] = TaskUpdate(@, validated.value)])

\* deleteCategory (first definition, with a DeleteMode).  Its store calls run
\* one after the other outside any transaction; category.delete is refused
\* while a task still references the category (Task.categoryId is a required
\* relation).
\* variant: no task row holds the category back
ReferencedNever(tbl, categoryId) == FALSE

Referenced(tbl, categoryId) == \E t \in DOMAIN tbl : tbl[t].categoryId = categoryId

Without(f, x) == [y \in DOMAIN f \ {x} |-> f[y]]

\* -------------------------------------------------------------- deleteTask
DeleteTask(u, taskId) ==
    /\ ops < MaxOps
    /\ pre' = tasks
    /\ ops' = ops + 1
    /\ UNCHANGED <<categories, reqs>>
    /\ LET base == [NoLast EXCEPT !.op = "deleteTask", !.user = u, !.taskId = taskId]
       IN  IF ~verifyTaskOwnership(tasks, u, taskId)
           THEN /\ last' = [base EXCEPT !.result = "AuthorizationError"]
                /\ UNCHANGED tasks
           ELSE /\ last' = base
                /\ tasks' = Without(tasks, taskId)

DeleteCategory(u, categoryId, mode, targetCategoryId) ==
    /\ ops < MaxOps
    /\ pre' = tasks
    /\ ops' = ops + 1
    /\ UNCHANGED reqs
    /\ LET base == [EditBase("deleteCategory", u, NoId, categoryId)
                       EXCEPT !.mode = mode, !.targetCategoryId = targetCategoryId,
                              !.cats = categories]
           fail(r) == /\ last' = [base EXCEPT !.result = r]
                      /\ UNCHANGED <<tasks, categories>>
           finish(tbl) ==
               /\ tasks' = tbl
               /\ IF Referenced(tbl, categoryId)
                  THEN /\ last' = [base EXCEPT !.result = "Error"]
                       /\ UNCHANGED categories
                  ELSE /\ last' = base
                       /\ categories' = Without(categories, categoryId)
       IN
       IF ~verifyCategoryOwnership(categories, u, categoryId)
       THEN fail("AuthorizationError")
       ELSE IF categories[categoryId].isDefault THEN fail("ValidationError")
       ELSE IF mode = "move" /\ targetCategoryId = NoId THEN fail("ValidationError")
       ELSE IF mode = "delete_all"
       THEN finish([t \in {x \in DOMAIN tasks :
                              ~(tasks[x].categoryId = categoryId /\ tasks[x].userId = u)}
                      |-> tasks[t]])
       ELSE IF targetCategoryId # NoId
               /\ ~verifyCategoryOwnership(categories, u, targetCategoryId)
       THEN fail("AuthorizationError")
       ELSE finish([t \in DOMAIN tasks |->
                      IF tasks[t].categoryId = categoryId /\ tasks[t].userId = u
                      THEN [tasks[t] EXCEPT !.categoryId = targetCategoryId]
                      ELSE tasks[t]])

\* ---------------------------------------------------------- createCategory
MaxCategoryNameLen == 255

\* !data.name?.trim() || data.name.length > 255
validateCategoryName(name) == name.trim > 0 /\ name.len <= MaxCategoryNameLen

CategoriesOf(cats, u) == {c \in DOMAIN cats : cats[c].userId = u}

\* data.isDefault ?? false
isDefaultOrFalse(isDefault) == isDefault = "true"

\* (lastCategory?.position ?? 0) + 1000, lastCategory the user's category of
\* largest position
nextCategoryPosition(cats, u) ==
    IF CategoriesOf(cats, u) = {} THEN 0 + CP(1000)
    ELSE MaxPosition(cats, CategoriesOf(cats, u)) + CP(1000)

\* data: [name, isDefault], isDefault "absent" when the caller leaves it out;
\* u is "" for a missing user id, and a user outside Users has no User row
CreateCategory(u, data) ==
    /\ ops < MaxOps
    /\ CatIds \ DOMAIN categories # {}
    /\ pre' = tasks
    /\ ops' = ops + 1
    /\ UNCHANGED <<tasks, reqs>>
    /\ LET base == [NoLast EXCEPT !.op = "createCategory", !.user = u,
                                  !.cats = categories, !.name = data.name,
                                  !.isDefault = data.isDefault]
           id == FreshIn(CatIds, DOMAIN categories)
           row == [Category(u, nextCategoryPosition(categories, u),
                            isDefaultOrFalse(data.isDefault))
                      EXCEPT !.name = data.name]
       IN
       IF u = "" \/ ~validateCategoryName(data.name)
       THEN /\ last' = [base EXCEPT !.result = "ValidationError"]
            /\ UNCHANGED categories
       ELSE IF u \notin Users
       THEN /\ last' = [base EXCEPT !.result = "AuthorizationError"]
            /\ UNCHANGED categories
       ELSE /\ last' = [base EXCEPT !.categoryId = id]
            /\ categories' = [c \in DOMAIN categories \cup {id} |->
                                 IF c = id THEN row ELSE categories[c]]

\* ---------------------------------------------------------- updateCategory
\* an absent name
NoName == Title(NullLen, NullLen)

\* data: [name, isDefault]; name NoName and isDefault "absent" when left out.
\* The name is checked only when it is given and not the empty string; the
\* update writes every field that is given.
UpdateCategory(u, categoryId, data) ==
    /\ ops < MaxOps
    /\ pre' = tasks
    /\ ops' = ops + 1
    /\ UNCHANGED <<tasks, reqs>>
    /\ LET base == [NoLast EXCEPT !.op = "updateCategory", !.user = u,
                                  !.categoryId = categoryId,
                                  !.cats = categories, !.name = data.name,
                                  !.isDefault = data.isDefault]
       IN
       IF data.name # NoName /\ data.name.len > 0 /\ ~validateCategoryName(data.name)
       THEN /\ last' = [base EXCEPT !.result = "ValidationError"]
            /\ UNCHANGED categories
       ELSE IF ~verifyCategoryOwnership(categories, u, categoryId)
       THEN /\ last' = [base EXCEPT !.result = "AuthorizationError"]
            /\ UNCHANGED categories
       ELSE /\ last' = base
            /\ categories' =
                 [categories EXCEPT
                    ![categoryId].name = IF data.name # NoName THEN data.name ELSE @,
                    ![categoryId].isDefault =
                        IF data.isDefault = "absent" THEN @ ELSE data.isDefault = "true"]

\* ------------------------------------------------------------ moveCategory
\* prisma.category.findUnique({ where: { id } }): the row of that id, whoever
\* owns it
findUnique(cats, id) == id \in DOMAIN cats

Abs(x) == IF x < 0 THEN -x ELSE x

\* Math.abs(d) < MIN_GAP for a difference d of positions:
\* |d| / CatScale < 1 / MIN_GAP_INVERSE
belowMinGap(d) == Abs(d) < (CatScale + MIN_GAP_INVERSE - 1) \div MIN_GAP_INVERSE

\* calculateNewPosition: before and after are ids or NoId; an id with no row
\* counts as not given.  result "unrepresentable" marks a half outside the
\* model's precision.
calculateNewPosition(cats, before, after) ==
    LET beforeItem == before # NoId /\ findUnique(cats, before)
        afterItem == after # NoId /\ findUnique(cats, after)
        ok(p) == [result |-> "ok", position |-> p]
        no(r) == [result |-> r, position |-> 0]
    IN
    IF beforeItem /\ afterItem
    THEN LET sum == cats[after].position + cats[before].position
             newPosition == sum \div 2
         IN  IF sum % 2 # 0 THEN no("unrepresentable")
             ELSE IF \/ belowMinGap(newPosition - cats[before].position)
                     \/ belowMinGap(newPosition - cats[after].position)
             THEN no("PositionError")
             ELSE ok(newPosition)
    ELSE IF afterItem
    THEN IF cats[after].position % 2 # 0 THEN no("unrepresentable")
         ELSE ok(cats[after].position \div 2)
    ELSE IF beforeItem
    THEN ok(cats[before].position + CP(POSITION_SPACING))
    ELSE ok(CP(POSITION_SPACING))

\* moveCategory: verifyCategoryOwnership, then prisma.category.reorder, which
\* computes the position and updates the row
MoveCategory(u, categoryId, beforeId, afterId) ==
    /\ ops < MaxOps
    /\ pre' = tasks
    /\ ops' = ops + 1
    /\ UNCHANGED <<tasks, reqs>>
    /\ LET base == [NoLast EXCEPT !.op = "moveCategory", !.user = u,
                                  !.categoryId = categoryId, !.beforeId = beforeId,
                                  !.afterId = afterId, !.cats = categories]
           r == calculateNewPosition(categories, beforeId, afterId)
       IN
       IF ~verifyCategoryOwnership(categories, u, categoryId)
       THEN /\ last' = [base EXCEPT !.result = "AuthorizationError"]
            /\ UNCHANGED categories
       ELSE /\ r.result # "unrepresentable"
            /\ last' = [base EXCEPT !.result = r.result]
            /\ IF r.result = "ok"
               THEN categories' = [categories EXCEPT ![categoryId].position = r.position]
               ELSE UNCHANGED categories

\* ------------------------------------------------------------ initial stores
\* 1000 + 1000/1024: the position reached from 1000 and 2000 by ten moves
\* "between t1 and itself" of the second task, each halving the gap; the first
\* gap below the threshold of 1.
Close == P(1000) + (P(1000) \div 1024)

SeedPositions == <<P(500), P(1000), Close, P(2000), P(3000)>>

SeedCategories ==
    [c \in {"c1", "c2", "c3"} |->
        IF c = "c1" THEN Category("u1", 0, TRUE)
        ELSE IF c = "c2" THEN Category("u1", CP(1000), FALSE)
        ELSE Category("u2", 0, TRUE)]

\* u1's tasks t1, t2, ... at the given positions (t2 in c2, the others in c1),
\* u2's task t4 at 1000
Board(positions) ==
    LET own == {<<"t1", 1>>, <<"t2", 2>>, <<"t3", 3>>}
        ids == {x[1] : x \in {y \in own : y[2] <= Len(positions)}}
        idx(t) == (CHOOSE y \in own : y[1] = t)[2]
    IN  [t \in ids \cup {"t4"} |->
            IF t = "t4" THEN Task("u2", P(1000), "c3")
            ELSE Task("u1", positions[idx(t)], IF t = "t2" THEN "c2" ELSE "c1")]

SeedBoards ==
    {Board(<<>>), Board(<<P(1000)>>), Board(<<P(1000), P(2000)>>),
     Board(<<P(1000), Close>>)}
    \cup {Board(<<SeedPositions[x[1]], SeedPositions[x[2]], SeedPositions[x[3]]>>) :
            x \in {y \in (1..5) \X (1..5) \X (1..5) : y[1] < y[2] /\ y[2] < y[3]}}

NoReqs == [r \in {} |-> NoLast]

EmptyStore == [t \in {} |-> Task("u1", 0, "c1")]

Init ==
    /\ \/ /\ tasks = EmptyStore
          /\ categories = [c \in {} |-> Category("u1", 0, TRUE)]
       \/ /\ tasks \in SeedBoards
          /\ categories = SeedCategories
    /\ last = NoLast
    /\ pre = tasks
    /\ ops = 0
    /\ reqs = NoReqs

OwnIds == {"t1", "t2", "t3"}

Next ==
    \/ \E c \in {NoId, "c2"} : CreateTask("u1", NewTask(c))
    \/ \E t \in OwnIds, b \in OwnIds \cup {NoId}, a \in OwnIds \cup {NoId} :
          MoveTask("u1", t, b, a, NoId)

Spec == Init /\ [][Next]_vars

\* ===================================================================== claims
Moved == last.op = "moveTask" /\ last.result = "ok"

Distinct(tbl, u) ==
    \A s, t \in TasksOf(tbl, u) : s # t => tbl[s].position # tbl[t].position

\* a move of last.taskId between two other tasks A = beforeId, B = afterId
\* of the caller, A sorting before B when the move was requested
MovedBetween ==
    /\ Moved
    /\ last.beforeId # NoId /\ last.afterId # NoId
    /\ last.taskId # last.beforeId /\ last.taskId # last.afterId
    /\ pre[last.beforeId].position < pre[last.afterId].position

SitsBetween ==
    /\ tasks[last.beforeId].position < tasks[last.taskId].position
    /\ tasks[last.taskId].position < tasks[last.afterId].position

\* C1 (as claimed): no two tasks of one user ever have equal position.
C1_Distinctness == \A u \in Users : Distinct(tasks, u)

\* C2 (as claimed): after a move between A and B, A sorting before B, the
\* moved task sorts strictly after A and strictly before B, and the relative
\* order of all other tasks of the user is unchanged.
C2_OrderPreserved ==
    MovedBetween =>
        /\ SitsBetween
        /\ \A x, y \in TasksOf(pre, last.user) \ {last.taskId} :
              pre[x].position < pre[y].position =>
                  tasks[x].position < tasks[y].position

\* C3 (as claimed): after a move that rebalanced, the moved task sits
\* strictly between the requested before and after tasks.
C3_BetweenAfterRebalance ==
    (MovedBetween /\ last.rebalances > 0) => SitsBetween

\* C4 (as claimed): after a move that rebalanced, every task of the load,
\* the one at index i, holds (i + 1) * 1000 (indices from 0).
C4_AllSiblingsEvenlySpaced ==
    (Moved /\ last.rebalances > 0) =>
        \A i \in 1..Len(last.load) : tasks[last.load[i]].position = i * Gap

\* C4 (amended): a move with both neighbours whose gap is below 1 runs
\* exactly one rebalance, after which every task of the load other than the
\* moved one holds (i + 1) * 1000, i its index in the load; a move runs a
\* rebalance in no other case, and never more than one.
C4_SiblingsEvenlySpaced ==
    Moved =>
        /\ last.rebalances \in {0, 1}
        /\ last.rebalances = 1 <=>
              /\ last.beforeId # NoId /\ last.afterId # NoId
              /\ pre[last.afterId].position - pre[last.beforeId].position < 1 * Scale
        /\ last.rebalances = 1 =>
              /\ \A t \in TasksOf(pre, last.user) : Find(last.load, t) # 0
              /\ \A i \in 1..Len(last.load) :
                    /\ \A j \in 1..Len(last.load) :
                          i < j => pre[last.load[i]].position <= pre[last.load[j]].position
                    /\ last.load[i] # last.taskId =>
                          tasks[last.load[i]].position = i * P(1000)

C4_Witness ==
    /\ Moved /\ last.rebalances = 1
    /\ Len(last.load) = 3
    /\ last.taskId = last.load[1]
    /\ tasks[last.load[2]].position = P(2000) /\ pre[last.load[2]].position # P(2000)
    /\ tasks[last.load[3]].position = P(3000) /\ pre[last.load[3]].position # P(3000)

\* C7: a move between A and B with B.position - A.position >= 1 puts the
\* moved task exactly at (A.position + B.position) / 2 and writes the
\* position of no other task.
C7_MidpointOnly ==
    (/\ Moved
     /\ last.beforeId # NoId /\ last.afterId # NoId
     /\ pre[last.afterId].position - pre[last.beforeId].position >= 1 * Scale) =>
        /\ 2 * tasks[last.taskId].position =
              pre[last.beforeId].position + pre[last.afterId].position
        /\ \A t \in DOMAIN pre \ {last.taskId} :
              t \in DOMAIN tasks /\ tasks[t].position = pre[t].position

C7_Witness ==
    /\ Moved
    /\ last.beforeId # NoId /\ last.afterId # NoId
    /\ last.taskId # last.beforeId /\ last.taskId # last.afterId
    /\ pre[last.beforeId].position = P(1000)
    /\ pre[last.afterId].position = P(2000)
    /\ tasks[last.taskId].position = P(1500)
    /\ pre[last.taskId].position # P(1500)

\* C8: a move with only afterId = X yields X.position - 500, strictly less
\* than X's position; a move with only beforeId = X yields X.position + 500,
\* strictly greater than X's position.
C8_HeadTail ==
    /\ (Moved /\ last.beforeId = NoId /\ last.afterId # NoId) =>
          /\ tasks[last.taskId].position = pre[last.afterId].position - P(500)
          /\ tasks[last.taskId].position < pre[last.afterId].position
    /\ (Moved /\ last.beforeId # NoId /\ last.afterId = NoId) =>
          /\ tasks[last.taskId].position = pre[last.beforeId].position + P(500)
          /\ tasks[last.taskId].position > pre[last.beforeId].position

C8_Witness ==
    /\ Moved /\ last.beforeId = NoId /\ last.afterId # NoId
    /\ last.taskId # last.afterId
    /\ pre[last.afterId].position = P(500)
    /\ tasks[last.afterId].position = P(500)
    /\ tasks[last.taskId].position = 0

\* C9 (as claimed): a move with neither beforeId nor afterId of the only task
\* of its user sets the task's position to 1000.
C9_SoleTaskGetsGap ==
    (/\ Moved
     /\ last.beforeId = NoId /\ last.afterId = NoId
     /\ TasksOf(pre, last.user) = {last.taskId}) =>
        tasks[last.taskId].position = P(POSITION_GAP)

\* C14: a created task gets the largest position among its user's tasks plus
\* 1000, or 1000 when the user has none, and so lies strictly after every
\* other task of the user.
Created == last.op = "createTask" /\ last.result = "ok"

C14_CreatedLast ==
    Created =>
        LET own == {t \in DOMAIN pre : pre[t].userId = last.user}
            new == tasks[last.taskId].position
        IN /\ last.taskId \notin DOMAIN pre
           /\ tasks[last.taskId].userId = last.user
           /\ own = {} => new = P(1000)
           /\ own # {} => \E m \in own : /\ \A t \in own : pre[t].position <= pre[m].position
                                         /\ new = pre[m].position + P(1000)
           /\ \A t \in own : tasks[t].position < new

C14_Witness ==
    /\ Created
    /\ \E m \in DOMAIN pre : /\ pre[m].userId = last.user
                             /\ last.op = "createTask"
                             /\ pre[m].position = P(1500)
                             /\ tasks[last.taskId].position = P(2500)

\* C16: a moveTask of one user leaves every task of every other user as it
\* was, and the position it writes is computed from positions of the
\* caller's own tasks alone.
FromPositions(S, new) ==
    \/ new = 0
    \/ \E p \in S : new \in {p - Gap, p - HalfGap, p + HalfGap}
    \/ \E p, q \in S : 2 * new = p + q

C16_CrossUserIndependence ==
    last.op = "moveTask" =>
        /\ \A t \in DOMAIN pre :
              pre[t].userId # last.user => t \in DOMAIN tasks /\ tasks[t] = pre[t]
        /\ DOMAIN tasks = DOMAIN pre
        /\ Moved =>
              FromPositions({pre[t].position : t \in {x \in DOMAIN pre : pre[x].userId = last.user}},
                            tasks[last.taskId].position)

\* a move of u1 that rebalanced u1's column while u2 holds a task
C16_Witness ==
    /\ Moved /\ last.rebalances = 1
    /\ \E t \in DOMAIN pre : pre[t].userId # last.user

\* ---------------------------------------------------------------------
\* AuthSpec: moves requested by either user on own, foreign and missing tasks
AuthBoards ==
    {Board(<<P(1000)>>), Board(<<P(1000), P(2000)>>), Board(<<P(500), P(1000), P(2000)>>)}

AuthInit ==
    /\ tasks \in AuthBoards
    /\ categories = SeedCategories
    /\ last = NoLast
    /\ pre = tasks
    /\ ops = 0
    /\ reqs = NoReqs

AuthNext ==
    \E u \in Users, t \in {"t1", "t3", "t4"}, b \in {NoId, "t1", "t4"},
       a \in {NoId, "t3"}, c \in {NoId, "c2", "c3"} :
          MoveTask(u, t, b, a, c)

AuthSpec == AuthInit /\ [][AuthNext]_vars

\* C6: a moveTask whose taskId is not a task of the caller (owned by another
\* user, or missing) fails with AuthorizationError and leaves the Task table
\* as it was.
C6_ForeignMoveRefused ==
    (/\ last.op = "moveTask"
     /\ ~(last.taskId \in DOMAIN pre /\ pre[last.taskId].userId = last.user)) =>
        /\ last.result = "AuthorizationError"
        /\ tasks = pre

C6_Witness ==
    /\ last.op = "moveTask"
    /\ last.taskId \in DOMAIN pre /\ pre[last.taskId].userId # last.user
    /\ last.categoryId # NoId /\ categories[last.categoryId].userId = last.user
    /\ last.beforeId # NoId
    /\ last.result = "AuthorizationError"

\* C11: a moveTask of an own task (and own category, if one is given) whose
\* beforeId or afterId is not a task of the caller, because it is missing
\* or owned by another user, fails with PositionError and changes no task.
Resolves(tbl, u, id) == id \in DOMAIN tbl /\ tbl[id].userId = u

C11_UnresolvedReference ==
    (/\ last.op = "moveTask"
     /\ Resolves(pre, last.user, last.taskId)
     /\ last.categoryId # NoId => categories[last.categoryId].userId = last.user
     /\ \/ last.beforeId # NoId /\ ~Resolves(pre, last.user, last.beforeId)
        \/ last.afterId # NoId /\ ~Resolves(pre, last.user, last.afterId)) =>
        /\ last.result = "PositionError"
        /\ tasks = pre

C11_Witness ==
    /\ last.op = "moveTask" /\ last.result = "PositionError"
    /\ Resolves(pre, last.user, last.taskId)
    /\ last.beforeId \in DOMAIN pre /\ pre[last.beforeId].userId # last.user
    /\ last.afterId = NoId
    /\ last.categoryId # NoId

C11_WitnessMissing ==
    /\ last.op = "moveTask" /\ last.result = "PositionError"
    /\ last.beforeId \in DOMAIN pre /\ pre[last.beforeId].userId = last.user
    /\ last.afterId # NoId /\ last.afterId \notin DOMAIN pre

\* ---------------------------------------------------------------------
\* RetrySpec: one moveTask and then the same request again
RetryMoveTask ==
    /\ ops >= 1
    /\ Moved
    /\ MoveTask(last.user, last.taskId, last.beforeId, last.afterId, last.categoryId)

RetryNext ==
    \/ /\ ops = 0
       /\ \E t \in OwnIds, b \in OwnIds \cup {NoId}, a \in OwnIds \cup {NoId} :
             MoveTask("u1", t, b, a, NoId)
    \/ RetryMoveTask

RetrySpec == Init /\ [][RetryNext]_vars

SameOrder(old, new, u) ==
    \A s, t \in TasksOf(old, u) :
        (old[s].position < old[t].position) <=> (new[s].position < new[t].position)

\* C15 (as claimed): a moveTask of a task to a place named by other tasks
\* (beforeId sorting before afterId when both are given), carried out a
\* second time with the same taskId, beforeId and afterId, leaves the
\* caller's tasks in the order they had after the first time.
C15_RetrySameOrder ==
    (/\ ops >= 2
     /\ Moved
     /\ last.taskId # last.beforeId /\ last.taskId # last.afterId
     /\ \/ last.beforeId = NoId
        \/ last.afterId = NoId
        \/ pre[last.beforeId].position < pre[last.afterId].position) =>
        SameOrder(pre, tasks, last.user)

\* ---------------------------------------------------------------------
\* CatSpec: categories created, updated and deleted, and tasks created in the
\* default category
CatInit ==
    /\ \/ /\ tasks = EmptyStore
          /\ categories = [c \in {} |-> Category("u1", 0, TRUE)]
       \/ /\ tasks \in {Board(<<P(1000)>>), Board(<<P(1000), P(2000)>>)}
          /\ categories = SeedCategories
    /\ last = NoLast
    /\ pre = tasks
    /\ ops = 0
    /\ reqs = NoReqs

CategoryPayloads ==
    {[name |-> NoName, isDefault |-> "true"], [name |-> NoName, isDefault |-> "false"],
     [name |-> Title(2, 0), isDefault |-> "absent"],
     [name |-> Title(0, 0), isDefault |-> "absent"]}

CatNext ==
    \/ CreateTask("u1", NewTask(NoId))
    \/ \E u \in {"u1", "", "u9"}, n \in {Title(4, 4), Title(2, 0)}, d \in {"absent", "true"} :
          CreateCategory(u, [name |-> n, isDefault |-> d])
    \/ \E c \in {"c1", "c2", "c3"}, data \in CategoryPayloads :
          UpdateCategory("u1", c, data)
    \/ \E c \in {"c1", "c2", "c3"}, mode \in {"delete_all", "move"},
          target \in {NoId, "c1", "c2"} :
          DeleteCategory("u1", c, mode, target)

CatSpec == CatInit /\ [][CatNext]_vars

\* C12 (as claimed): every user has at most one category with isDefault
\* true, and exactly one when a createTask without categoryId has just
\* completed for that user.
C12_OneDefault ==
    /\ \A u \in Users : Cardinality(DefaultsOf(categories, u)) <= 1
    /\ (Created /\ last.categoryId = NoId) =>
          Cardinality(DefaultsOf(categories, last.user)) = 1

\* a deleteCategory by its owner of a category whose isDefault is true failed
\* with ValidationError and left tasks and categories as they were
DeleteDefaultRefused ==
    (/\ last.op = "deleteCategory"
     /\ verifyCategoryOwnership(last.cats, last.user, last.categoryId)
     /\ last.cats[last.categoryId].isDefault) =>
        /\ last.result = "ValidationError"
        /\ tasks = pre
        /\ categories = last.cats

\* C13 (as claimed): deleteCategory of a default category fails with
\* ValidationError in either mode and changes nothing, and a user who has a
\* default category has one after every step.
C13_DefaultNeverRemoved ==
    [][/\ DeleteDefaultRefused'
       /\ \A u \in Users :
             DefaultsOf(categories, u) # {} => DefaultsOf(categories', u) # {}]_vars

\* ---------------------------------------------------------------------
\* CatMoveSpec: categories moved by u1
\* 1000 / 2^19: the position reached from 1000 by nineteen moves of a
\* category with itself as afterId, each halving it; the first position whose
\* midpoint with 0 is less than MIN_GAP away from both
CloseCat == CP(1000) \div (2 ^ 19)

CloseCategories ==
    [c \in CatIds |->
        IF c = "c1" THEN Category("u1", 0, TRUE)
        ELSE IF c = "c2" THEN Category("u1", CloseCat, FALSE)
        ELSE IF c = "c3" THEN Category("u2", 0, TRUE)
        ELSE Category("u1", CP(1000), FALSE)]

CatMoveInit ==
    /\ tasks = Board(<<P(1000)>>)
    /\ categories \in {SeedCategories, CloseCategories}
    /\ last = NoLast
    /\ pre = tasks
    /\ ops = 0
    /\ reqs = NoReqs

CatMoveNext ==
    \E c \in {"c1", "c2", "c3", "c4"}, b \in {NoId, "c1", "c2", "c3"},
       a \in {NoId, "c1", "c2", "c4"} :
          MoveCategory("u1", c, b, a)

CatMoveSpec == CatMoveInit /\ [][CatMoveNext]_vars

MovedCategory ==
    /\ last.op = "moveCategory"
    /\ verifyCategoryOwnership(last.cats, last.user, last.categoryId)

OwnOther(id) ==
    /\ id # last.categoryId
    /\ verifyCategoryOwnership(last.cats, last.user, id)

\* C19 (as claimed): a moveCategory of an own category between two other own
\* categories, the first before the second, whose midpoint is less than
\* MIN_GAP from them succeeds and leaves the category between the two.
C19_CloseGapRecovered ==
    (/\ MovedCategory
     /\ OwnOther(last.beforeId) /\ OwnOther(last.afterId)
     /\ last.cats[last.beforeId].position < last.cats[last.afterId].position
     /\ belowMinGap((last.cats[last.afterId].position
                       - last.cats[last.beforeId].position) \div 2)) =>
        /\ last.result = "ok"
        /\ categories[last.beforeId].position < categories[last.categoryId].position
        /\ categories[last.categoryId].position < categories[last.afterId].position

\* C20 (as claimed): a moveCategory with only afterId = X, another own
\* category, leaves the category at a position strictly less than X's, and
\* one with only beforeId = X at a position strictly greater than X's.
C20_CategoryHeadTail ==
    (MovedCategory /\ last.result = "ok") =>
        /\ (last.beforeId = NoId /\ OwnOther(last.afterId)) =>
              categories[last.categoryId].position < categories[last.afterId].position
        /\ (last.afterId = NoId /\ OwnOther(last.beforeId)) =>
              categories[last.categoryId].position > categories[last.beforeId].position

\* C21 (as claimed): a moveCategory of an own category whose beforeId or
\* afterId is given and is not a category of the caller (missing, or owned by
\* another user) fails with PositionError and changes no category.
C21_CategoryReferenceRefused ==
    (/\ MovedCategory
     /\ \/ /\ last.beforeId # NoId
           /\ ~verifyCategoryOwnership(last.cats, last.user, last.beforeId)
        \/ /\ last.afterId # NoId
           /\ ~verifyCategoryOwnership(last.cats, last.user, last.afterId)) =>
        /\ last.result = "PositionError"
        /\ categories = last.cats

\* C26 (as claimed): no two categories of one user have the same position.
C26_CategoryPositionsDistinct ==
    \A c, d \in DOMAIN categories :
        (c # d /\ categories[c].userId = categories[d].userId) =>
            categories[c].position # categories[d].position

\* an action whose target task or category is not the caller's, whether it is
\* missing or owned by another user, ended in AuthorizationError and wrote
\* nothing
GuardedTargetRefused ==
    /\ (/\ last.op \in {"deleteTask", "moveTask"}
        /\ ~verifyTaskOwnership(pre, last.user, last.taskId)) =>
           last.result = "AuthorizationError" /\ tasks = pre
    /\ (/\ last.op \in {"moveCategory", "deleteCategory"}
        /\ ~verifyCategoryOwnership(last.cats, last.user, last.categoryId)) =>
           last.result = "AuthorizationError" /\ tasks = pre /\ categories = last.cats

\* C22 (as claimed): an action that names an id X which is not the caller's
\* ends the same way and writes the same whether X is owned by another user
\* or does not exist: as a target it is refused with AuthorizationError and
\* nothing is written, and a moveCategory naming another user's category X
\* as a neighbour ends as it would in the store without X.
C22_Indistinguishable ==
    /\ GuardedTargetRefused
    /\ MovedCategory =>
          \A X \in {last.beforeId, last.afterId} \ {NoId} :
             (X \in DOMAIN last.cats /\ last.cats[X].userId # last.user) =>
                LET r == calculateNewPosition(Without(last.cats, X),
                                              last.beforeId, last.afterId)
                IN  r.result # "unrepresentable" =>
                       /\ last.result = r.result
                       /\ r.result = "ok" =>
                             categories[last.categoryId].position = r.position

\* C23: a moveTask of an own task with a categoryId that is not a category of
\* the caller fails with AuthorizationError and changes no task; a completed
\* one with a categoryId leaves the task in that category, which is the
\* caller's; a completed one without leaves the task's category as it was.
OwnsCategory(u, c) == c \in DOMAIN categories /\ categories[c].userId = u

C23_MoveWithCategory ==
    (last.op = "moveTask" /\ Resolves(pre, last.user, last.taskId)) =>
        /\ (last.categoryId # NoId /\ ~OwnsCategory(last.user, last.categoryId)) =>
              last.result = "AuthorizationError" /\ tasks = pre
        /\ (Moved /\ last.categoryId # NoId) =>
              /\ OwnsCategory(last.user, last.categoryId)
              /\ tasks[last.taskId].categoryId = last.categoryId
        /\ (Moved /\ last.categoryId = NoId) =>
              tasks[last.taskId].categoryId = pre[last.taskId].categoryId

\* a task moved out of its category into another, to a new position
C23_Witness ==
    /\ Moved /\ last.categoryId = "c2"
    /\ pre[last.taskId].categoryId = "c1"
    /\ tasks[last.taskId].categoryId = "c2"
    /\ tasks[last.taskId].position # pre[last.taskId].position

C23_WitnessRefused ==
    /\ last.op = "moveTask" /\ last.result = "AuthorizationError"
    /\ Resolves(pre, last.user, last.taskId)
    /\ last.categoryId \in DOMAIN categories

\* C24: after a deleteCategory that completed, the category is gone and no
\* task refers to it; in mode 'move' the tasks that were in it are all kept,
\* with only their category changed to the target, which (when there were
\* any) is another category of the caller; in mode 'delete_all' exactly they
\* are deleted; every other task and category is as it was.
DeletedCategory == last.op = "deleteCategory" /\ last.result = "ok"

C24_WitnessSelfTarget ==
    /\ DeletedCategory /\ last.mode = "move"
    /\ last.targetCategoryId = last.categoryId

\* ---------------------------------------------------------------------
\* EditSpec: the actions that edit tasks without reordering them
Payload(keys) ==
    [keys |-> keys, title |-> Title(2, 2), description |-> 5, status |-> "COMPLETED",
     dueDate |-> "d1", categoryId |-> "c2", position |-> P(7)]

EditPayloads ==
    {Payload({"position"}), Payload({"title", "position"}),
     Payload({"description", "status", "dueDate"}),
     Payload({"categoryId", "position"}),
     [Payload({"title", "position"}) EXCEPT !.title = Title(0, 0)],
     [Payload({"categoryId", "position"}) EXCEPT !.categoryId = "c3"]}

EditInit ==
    /\ tasks \in {Board(<<P(1000), P(2000)>>), Board(<<P(500), P(1000), P(2000)>>)}
    /\ categories = SeedCategories
    /\ last = NoLast
    /\ pre = tasks
    /\ ops = 0
    /\ reqs = NoReqs

EditNext ==
    \/ \E t \in {"t1", "t2", "t4"}, d \in EditPayloads : UpdateTask("u1", t, d)
    \/ \E t \in {"t1", "t4"}, x \in {Title(2, 2), Title(1, 0)} : UpdateTaskTitle("u1", t, x)
    \/ \E t \in {"t1", "t4"}, x \in {5, 1001} : UpdateTaskDescription("u1", t, x)
    \/ \E t \in {"t1", "t4"}, x \in {"COMPLETED", "DONE"} : UpdateTaskStatus("u1", t, x)
    \/ \E t \in {"t1", "t4"}, c \in {"c2", "c3"} : UpdateTaskCategory("u1", t, c)
    \/ \E c \in CatIds, m \in {"move", "delete_all"}, x \in {NoId, "c1", "c2"} :
          DeleteCategory("u1", c, m, x)

EditSpec == EditInit /\ [][EditNext]_vars

EditOps == {"updateTask", "updateTaskTitle", "updateTaskDescription",
            "updateTaskStatus", "updateTaskCategory"}

\* an updateTask payload with an empty title, a title of more than 255
\* characters, a description of more than 1000 characters or a status that is
\* not one of the three
Malformed(data) ==
    \/ "title" \in data.keys /\ (data.title.len = 0 \/ data.title.len > 255)
    \/ "description" \in data.keys /\ data.description > 1000
    \/ "status" \in data.keys /\ data.status \notin {"TODO", "IN_PROGRESS", "COMPLETED"}

\* C25 (as claimed): an updateTask of an own task with a malformed payload
\* ends in ValidationError and changes no task.
C25_MalformedIsValidationError ==
    (/\ last.op = "updateTask"
     /\ Resolves(pre, last.user, last.taskId)
     /\ Malformed(last.data)) =>
        /\ last.result = "ValidationError"
        /\ tasks = pre

\* ---------------------------------------------------------------------
\* RefSpec: the actions that set a task's category
RefNext ==
    \/ EditNext
    \/ \E c \in {NoId, "c2", "c3"} : CreateTask("u1", NewTask(c))
    \/ \E t \in {"t1", "t4"}, c \in {NoId, "c2", "c3"} : MoveTask("u1", t, NoId, NoId, c)

RefSpec == EditInit /\ [][RefNext]_vars

\* C28 (as claimed): the category of every task exists and belongs to the
\* task's user.
C28_CategoryOfSameUser ==
    \A t \in DOMAIN tasks :
        /\ tasks[t].categoryId \in DOMAIN categories
        /\ categories[tasks[t].categoryId].userId = tasks[t].userId

\* C10: updateTask (also with a payload carrying a position), updateTaskTitle,
\* updateTaskDescription, updateTaskStatus, updateTaskCategory and
\* deleteCategory in 'move' mode leave every task in the table with the
\* position it had.
C10_EditsKeepPositions ==
    (\/ last.op \in EditOps
     \/ last.op = "deleteCategory" /\ last.mode = "move") =>
        /\ DOMAIN tasks = DOMAIN pre
        /\ \A t \in DOMAIN pre : tasks[t].position = pre[t].position

C10_Witness ==
    /\ last.op = "updateTask" /\ last.result = "ok"
    /\ tasks[last.taskId].title # pre[last.taskId].title
    /\ tasks[last.taskId].position = pre[last.taskId].position
    /\ pre[last.taskId].position # P(7)

C10_WitnessMoveMode ==
    /\ last.op = "deleteCategory" /\ last.mode = "move" /\ last.result = "ok"
    /\ \E t \in DOMAIN pre : pre[t].categoryId = last.categoryId
                             /\ tasks[t].categoryId = last.targetCategoryId
                             /\ tasks[t].categoryId # pre[t].categoryId

\* ---------------------------------------------------------------------
\* ConcSpec: two moveTask requests of u1 in flight at once.  Each request runs
\* the handler's awaits one at a time: verifyTaskOwnership, then inside
\* prisma.$transaction the findMany, then the updates and the commit.  The
\* transaction is opened with no isolation level, so it runs at the store's
\* default (read committed): findMany takes no lock and sees what is
\* committed when it runs; the updates become visible together at commit.
Requests == {"r1", "r2"}

Request(taskId, beforeId, afterId) ==
    [pc |-> "start", taskId |-> taskId, beforeId |-> beforeId, afterId |-> afterId,
     load |-> <<>>, snap |-> EmptyStore, result |-> "none", order |-> 0,
     fresh |-> TRUE, rebalances |-> 0]

ConcInit ==
    /\ tasks \in {Board(<<P(1000), P(2000), P(3000)>>),
                  Board(<<P(1000), Close, P(2000)>>)}
    /\ categories = SeedCategories
    /\ last = NoLast
    /\ pre = tasks
    /\ ops = 0
    /\ reqs \in [Requests ->
                  {Request(t, b, a) : t \in {"t1", "t2", "t3", "t4"},
                                      b \in OwnIds \cup {NoId},
                                      a \in OwnIds \cup {NoId}}]

\* await verifyTaskOwnership(userId, taskId)
ReqVerify(r) ==
    /\ reqs[r].pc = "start"
    /\ IF verifyTaskOwnership(tasks, "u1", reqs[r].taskId)
       THEN reqs' = [reqs EXCEPT ![r].pc = "verified"]
       ELSE reqs' = [reqs EXCEPT ![r].pc = "done", ![r].result = "AuthorizationError"]
    /\ UNCHANGED <<tasks, categories, last, pre, ops>>

\* const columnTasks = await tx.task.findMany(...)
ReqLoad(r) ==
    /\ reqs[r].pc = "verified"
    /\ \E columnTasks \in FindManyAsc(tasks, "u1") :
          reqs' = [reqs EXCEPT ![r].pc = "loaded", ![r].load = columnTasks,
                               ![r].snap = tasks]
    /\ UNCHANGED <<tasks, categories, last, pre, ops>>

\* the rest of the transaction: the position from the rows as loaded, the
\* updates, the commit
ReqCommit(r) ==
    /\ reqs[r].pc = "loaded"
    /\ LET q == reqs[r]
           x == MoveTx(q.snap, tasks, q.load, q.taskId, q.beforeId, q.afterId, NoId)
       IN  /\ x.result # "unrepresentable"
           /\ tasks' = x.tasks
           /\ pre' = tasks
           /\ ops' = ops + 1
           /\ reqs' = [reqs EXCEPT ![r].pc = "done", ![r].result = x.result,
                                   ![r].rebalances = x.rebalances,
                                   ![r].order = ops + 1,
                                   ![r].fresh = (q.snap = tasks)]
    /\ UNCHANGED <<categories, last>>

ConcNext == \E r \in Requests : ReqVerify(r) \/ ReqLoad(r) \/ ReqCommit(r)

ConcSpec == ConcInit /\ [][ConcNext]_vars

\* C18: every moveTask request passes through its steps in the one order
\* verify ownership, load, then allocate and persist; it ends once, either
\* refused at verification or with the result of its transaction, and a
\* failed transaction leaves the Task table as it was; a finished request
\* takes no further step; it rebalances at most once, and exactly when both
\* neighbours were supplied, found, and less than 1 apart as loaded.
StepOrder ==
    {<<"start", "verified">>, <<"start", "done">>, <<"verified", "loaded">>,
     <<"loaded", "done">>}

C18_RequestStateMachine ==
    [][\A r \in DOMAIN reqs :
          LET q == reqs[r]
              n == reqs'[r]
          IN  /\ n.pc # q.pc => <<q.pc, n.pc>> \in StepOrder
              /\ q.pc = "done" => n = q
              /\ (n.pc = "done") <=> (n.result # "none")
              /\ (q.pc = "start" /\ n.pc = "done") => n.result = "AuthorizationError"
              /\ (q.pc # "done" /\ n.pc = "done" /\ n.result # "ok") => tasks' = tasks
              /\ (q.pc # "loaded" \/ n.pc # "done") => tasks' = tasks \/ n = q
              /\ n.rebalances \in {0, 1}
              /\ n.rebalances = 1 <=>
                    /\ n.pc = "done"
                    /\ n.beforeId # NoId /\ n.afterId # NoId
                    /\ Find(n.load, n.beforeId) # 0 /\ Find(n.load, n.afterId) # 0
                    /\ n.snap[n.afterId].position - n.snap[n.beforeId].position < P(1)]_vars

\* a request that committed second, after a rebalance
C18_Witness ==
    \E r \in DOMAIN reqs :
        /\ reqs[r].pc = "done" /\ reqs[r].result = "ok"
        /\ reqs[r].rebalances = 1 /\ reqs[r].order = 2

\* ---------------------------------------------------------------------
\* CreateSpec: two createTask requests of u1 in flight at once.  createTask
\* runs outside any transaction; each await is a step: getNextPosition's
\* findFirst, then (when no categoryId is given) getDefaultCategoryId's
\* findFirst and, when it finds none, its category.create, then task.create.
CreateRequest(title, categoryId) ==
    [pc |-> "start", title |-> title, categoryId |-> categoryId, position |-> 0,
     category |-> NoId, taskId |-> NoId, result |-> "none"]

CreateInit ==
    /\ \/ /\ tasks = EmptyStore
          /\ categories = [c \in {} |-> Category("u1", 0, TRUE)]
       \/ /\ tasks \in {Board(<<>>), Board(<<P(1000)>>), Board(<<P(500), P(1000)>>)}
          /\ categories = SeedCategories
    /\ last = NoLast
    /\ pre = tasks
    /\ ops = 0
    /\ reqs \in [Requests -> {CreateRequest(x, c) : x \in {Title(1, 1), Title(2, 0)},
                                                    c \in {NoId, "c2"}}]

\* validateTitle, then position: await getNextPosition(userId)
CrPosition(r) ==
    /\ reqs[r].pc = "start"
    /\ IF ~validateTitle(reqs[r].title)
       THEN reqs' = [reqs EXCEPT ![r].pc = "done", ![r].result = "ValidationError"]
       ELSE reqs' = [reqs EXCEPT ![r].pc = "positioned",
                                 ![r].position = getNextPosition(tasks, "u1")]
    /\ UNCHANGED <<tasks, categories, last, pre, ops>>

\* data.categoryId || await getDefaultCategoryId(userId): the findFirst
CrFindDefault(r) ==
    /\ reqs[r].pc = "positioned"
    /\ IF reqs[r].categoryId # NoId
       THEN reqs' = [reqs EXCEPT ![r].pc = "ready", ![r].category = reqs[r].categoryId]
       ELSE IF DefaultsOf(categories, "u1") = {}
       THEN reqs' = [reqs EXCEPT ![r].pc = "nodefault"]
       ELSE \E c \in DefaultsOf(categories, "u1") :
               reqs' = [reqs EXCEPT ![r].pc = "ready", ![r].category = c]
    /\ UNCHANGED <<tasks, categories, last, pre, ops>>

\* getDefaultCategoryId: the category.create after a findFirst that found none
CrCreateDefault(r) ==
    /\ reqs[r].pc = "nodefault"
    /\ CatIds \ DOMAIN categories # {}
    /\ LET c == FreshIn(CatIds, DOMAIN categories)
       IN  /\ categories' = [x \in DOMAIN categories \cup {c} |->
                                IF x = c THEN Category("u1", 0, TRUE) ELSE categories[x]]
           /\ reqs' = [reqs EXCEPT ![r].pc = "ready", ![r].category = c]
    /\ UNCHANGED <<tasks, last, pre, ops>>

\* prisma.task.create with the position and the category read before
CrInsert(r) ==
    /\ reqs[r].pc = "ready"
    /\ TaskIds \ DOMAIN tasks # {}
    /\ LET q == reqs[r]
           id == FreshIn(TaskIds, DOMAIN tasks)
           row == [Task("u1", q.position, q.category) EXCEPT !.title = q.title]
       IN  IF q.category \in DOMAIN categories
           THEN /\ tasks' = [t \in DOMAIN tasks \cup {id} |->
                                IF t = id THEN row ELSE tasks[t]]
                /\ reqs' = [reqs EXCEPT ![r].pc = "done", ![r].result = "ok",
                                        ![r].taskId = id]
           ELSE /\ reqs' = [reqs EXCEPT ![r].pc = "done", ![r].result = "Error"]
                /\ UNCHANGED tasks
    /\ UNCHANGED <<categories, last, pre, ops>>

CreateNext ==
    \E r \in Requests :
        CrPosition(r) \/ CrFindDefault(r) \/ CrCreateDefault(r) \/ CrInsert(r)

CreateSpec == CreateInit /\ [][CreateNext]_vars

\* C27 (as claimed): two createTask requests of one user that both completed
\* created tasks of different positions, each greater than every position
\* the user's tasks had before the two requests.
C27_ConcurrentCreatesDistinct ==
    (\A r \in Requests : reqs[r].pc = "done" /\ reqs[r].result = "ok") =>
        /\ tasks[reqs["r1"].taskId].position # tasks[reqs["r2"].taskId].position
        /\ \A r \in Requests : \A t \in DOMAIN pre :
              pre[t].userId = "u1" => pre[t].position < tasks[reqs[r].taskId].position

\* ---------------------------------------------------------------------
\* DeleteSpec: one deleteCategory request of u1 in flight while u1 creates a
\* task or changes a task's category.  deleteCategory runs outside any
\* transaction; each await is a step.
DeleteRequest(categoryId, mode, targetCategoryId) ==
    [pc |-> "start", categoryId |-> categoryId, mode |-> mode,
     targetCategoryId |-> targetCategoryId, wrote |-> {}, result |-> "none"]

DeleteInit ==
    /\ tasks \in {Board(<<P(1000), P(2000)>>), Board(<<P(1000)>>)}
    /\ categories = SeedCategories
    /\ last = NoLast
    /\ pre = tasks
    /\ ops = 0
    /\ reqs \in [{"r1"} -> {DeleteRequest(c, m, x) : c \in {"c1", "c2", "c3"},
                                                     m \in {"delete_all", "move"},
                                                     x \in {NoId, "c1", "c3"}}]

\* verifyCategoryOwnership(userId, categoryId), the isDefault check and the
\* check of the target's presence
DcVerify(r) ==
    /\ reqs[r].pc = "start"
    /\ LET q == reqs[r]
           end(x) == reqs' = [reqs EXCEPT ![r].pc = "done", ![r].result = x]
       IN  IF ~verifyCategoryOwnership(categories, "u1", q.categoryId)
           THEN end("AuthorizationError")
           ELSE IF categories[q.categoryId].isDefault THEN end("ValidationError")
           ELSE IF q.mode = "move" /\ q.targetCategoryId = NoId THEN end("ValidationError")
           ELSE reqs' = [reqs EXCEPT ![r].pc = IF q.mode = "move" THEN "verified"
                                               ELSE "checked"]
    /\ UNCHANGED <<tasks, categories, last, pre, ops>>

\* mode 'move': verifyCategoryOwnership(userId, targetCategoryId)
DcVerifyTarget(r) ==
    /\ reqs[r].pc = "verified"
    /\ IF verifyCategoryOwnership(categories, "u1", reqs[r].targetCategoryId)
       THEN reqs' = [reqs EXCEPT ![r].pc = "checked"]
       ELSE reqs' = [reqs EXCEPT ![r].pc = "done", ![r].result = "AuthorizationError"]
    /\ UNCHANGED <<tasks, categories, last, pre, ops>>

\* task.deleteMany or task.updateMany, where: { categoryId, userId }; wrote
\* is the set of rows it deleted or updated
DcTasks(r) ==
    /\ reqs[r].pc = "checked"
    /\ LET q == reqs[r]
           member(t) == tasks[t].categoryId = q.categoryId /\ tasks[t].userId = "u1"
           members == {t \in DOMAIN tasks : member(t)}
       IN  IF q.mode = "delete_all"
           THEN /\ tasks' = [t \in {x \in DOMAIN tasks : ~member(x)} |-> tasks[t]]
                /\ reqs' = [reqs EXCEPT ![r].pc = "emptied", ![r].wrote = members]
           ELSE IF q.targetCategoryId \in DOMAIN categories
           THEN /\ tasks' = [t \in DOMAIN tasks |->
                                IF member(t)
                                THEN [tasks[t] EXCEPT !.categoryId = q.targetCategoryId]
                                ELSE tasks[t]]
                /\ reqs' = [reqs EXCEPT ![r].pc = "emptied", ![r].wrote = members]
           ELSE \* the target is gone: the update is refused by the foreign key
                /\ reqs' = [reqs EXCEPT ![r].pc = "done", ![r].result = "Error"]
                /\ UNCHANGED tasks
    /\ UNCHANGED <<categories, last, pre, ops>>

\* category.delete, refused while a task references the category
DcDelete(r) ==
    /\ reqs[r].pc = "emptied"
    /\ IF Referenced(tasks, reqs[r].categoryId)
       THEN /\ reqs' = [reqs EXCEPT ![r].pc = "done", ![r].result = "Error"]
            /\ UNCHANGED categories
       ELSE /\ reqs' = [reqs EXCEPT ![r].pc = "done", ![r].result = "ok"]
            /\ categories' = Without(categories, reqs[r].categoryId)
    /\ UNCHANGED <<tasks, last, pre, ops>>

DeleteNext ==
    \/ DcVerify("r1")
    \/ DcVerifyTarget("r1")
    \/ DcTasks("r1")
    \/ DcDelete("r1")
    \/ \E c \in {NoId, "c2"} : CreateTask("u1", NewTask(c))
    \/ \E t \in {"t1", "t2"}, c \in {"c1", "c2"} : UpdateTaskCategory("u1", t, c)

DeleteSpec == DeleteInit /\ [][DeleteNext]_vars

\* C29 (as claimed): when a deleteCategory request has ended, either the
\* category is gone and no task refers to it, or the category is still there
\* and the request has deleted or moved no task.
C29_DeleteAllOrNothing ==
    \A r \in DOMAIN reqs :
        reqs[r].pc = "done" =>
            IF reqs[r].categoryId \in DOMAIN categories
            THEN reqs[r].wrote = {}
            ELSE \A t \in DOMAIN tasks : tasks[t].categoryId # reqs[r].categoryId

\* ---------------------------------------------------------------------
\* RollbackSpec: one moveTask request of u1 in flight while u1 deletes tasks
RollbackInit ==
    /\ tasks \in {Board(<<P(1000), Close, P(2000)>>),
                  Board(<<P(1000), P(2000), P(3000)>>)}
    /\ categories = SeedCategories
    /\ last = NoLast
    /\ pre = tasks
    /\ ops = 0
    /\ reqs \in [{"r1"} ->
                  {Request(t, b, a) : t \in OwnIds,
                                      b \in OwnIds \cup {NoId},
                                      a \in OwnIds \cup {NoId}}]

RollbackNext ==
    \/ ReqVerify("r1")
    \/ ReqLoad("r1")
    \/ ReqCommit("r1")
    \/ \E t \in OwnIds \cup {"t4"} : DeleteTask("u1", t)

RollbackSpec == RollbackInit /\ [][RollbackNext]_vars

\* the request q found both neighbours in its load less than 1 apart, so its
\* transaction goes on to rebalance
WillRebalance(q) ==
    /\ Find(q.load, q.beforeId) # 0 /\ Find(q.load, q.afterId) # 0
    /\ q.snap[q.afterId].position - q.snap[q.beforeId].position < P(1)

\* C17: when a request that rebalances finds a row of its load gone from the
\* table (deleted after the load), the request ends with PositionError and
\* the step leaves the Task table as it was: no row has a rebalanced position.
C17_RebalanceAllOrNothing ==
    [][\A r \in DOMAIN reqs :
          (/\ reqs[r].pc = "loaded" /\ reqs'[r].pc = "done"
           /\ WillRebalance(reqs[r])
           /\ \E i \in 1..Len(reqs[r].load) : reqs[r].load[i] \notin DOMAIN tasks) =>
              /\ reqs'[r].result = "PositionError"
              /\ tasks' = tasks]_vars

C17_Witness ==
    \E r \in DOMAIN reqs :
        /\ reqs[r].pc = "done" /\ reqs[r].result = "PositionError"
        /\ WillRebalance(reqs[r])
        /\ reqs[r].taskId \in DOMAIN tasks
        /\ \E i \in 1..Len(reqs[r].load) : reqs[r].load[i] \notin DOMAIN tasks
        /\ \E i \in 1..Len(reqs[r].load) :
              /\ reqs[r].load[i] \in DOMAIN tasks
              /\ tasks[reqs[r].load[i]].position # i * Gap

\* C5 (as claimed): a request never commits a position computed from a load
\* that another request's commit has since overwritten: every committed move
\* loaded the Task table as it stands when it commits.
C5_NoStaleSnapshot ==
    \A r \in DOMAIN reqs :
        (reqs[r].pc = "done" /\ reqs[r].result = "ok") => reqs[r].fresh

\* ------------------------------------------------ optimistic client reorder
\* reorderMutation.onMutate: the position the client writes for the dragged
\* task into the cached list; previousTasks.find of an id that is absent
\* (or of no id) is undefined
optimisticPosition(snap, previousTasks, beforeId, afterId) ==
    LET b == Find(previousTasks, beforeId)
        a == Find(previousTasks, afterId)
        beforeTask == snap[previousTasks[b]]
        afterTask == snap[previousTasks[a]]
    IN  IF b # 0 /\ a # 0 THEN (beforeTask.position + afterTask.position) \div 2
        ELSE IF b # 0 THEN beforeTask.position + P(1000)
        ELSE IF a # 0 THEN afterTask.position - P(1000)
        ELSE 0

\* the cached list after setQueryData: the dragged row carries the new
\* position, the others keep theirs
optimisticCache(snap, previousTasks, taskId, beforeId, afterId) ==
    IF Find(previousTasks, taskId) = 0 THEN snap
    ELSE [snap EXCEPT ![taskId].position =
              optimisticPosition(snap, previousTasks, beforeId, afterId)]

\* Array.prototype.sort with (a, b) => a.position - b.position is stable:
\* s is shown before t when its position is smaller, or equal with s
\* earlier in the list that was sorted
shownBefore(cache, previousTasks, s, t) ==
    \/ cache[s].position < cache[t].position
    \/ /\ cache[s].position = cache[t].position
       /\ Find(previousTasks, s) < Find(previousTasks, t)

\* C30 (as claimed): after a committed moveTask, any two tasks of the caller
\* that the server orders strictly are shown in that same order by the list
\* the client sorted after its optimistic update of the dragged task, the
\* client having started from the list the server loaded.
C30_OptimisticAgrees ==
    (/\ Moved
     /\ last.taskId # last.beforeId /\ last.taskId # last.afterId
     /\ \/ last.beforeId = NoId
        \/ last.afterId = NoId
        \/ pre[last.beforeId].position < pre[last.afterId].position) =>
        LET cache == optimisticCache(pre, last.load, last.taskId,
                                     last.beforeId, last.afterId)
        IN  \A s, t \in TasksOf(pre, last.user) :
                tasks[s].position < tasks[t].position =>
                    shownBefore(cache, last.load, s, t)

====
